---- MODULE Spec2Model ----
(***************************************************************************)
(* Model of the document-structure core of IncludEd-2.0:                   *)
(*   ai-service/ml_pipeline/structural_segmenter.py  (StructuralSegmenter) *)
(*   ai-service/ml_pipeline/content_classifier.py    (ContentClassifier)   *)
(* Text is modelled character by character: a string is a sequence of      *)
(* one-character strings, and every regular expression of the source is    *)
(* an operator that matches as the regular expression does.                *)
(* Scores are kept as integers, in hundredths; confidences in thousandths. *)
(***************************************************************************)
EXTENDS Integers, Sequences, FiniteSets, TLC

Max(a, b) == IF a > b THEN a ELSE b
Min(a, b) == IF a < b THEN a ELSE b

----------------------------------------------------------------------------
(* Characters                                                              *)

UpperSeq == <<"A","B","C","D","E","F","G","H","I","J","K","L","M",
              "N","O","P","Q","R","S","T","U","V","W","X","Y","Z">>
LowerSeq == <<"a","b","c","d","e","f","g","h","i","j","k","l","m",
              "n","o","p","q","r","s","t","u","v","w","x","y","z">>
UpperChars == {UpperSeq[k] : k \in 1..26}
LowerChars == {LowerSeq[k] : k \in 1..26}
LetterChars == UpperChars \cup LowerChars
DigitChars == {"0","1","2","3","4","5","6","7","8","9"}
SpaceChars == {" "}
WordChars == LetterChars \cup DigitChars \cup {"_"}
RomanChars == {"I","V","X","i","v","x"}

ToUpperMap == [c \in LowerChars |-> UpperSeq[CHOOSE k \in 1..26 : LowerSeq[k] = c]]
ToUpper(c) == IF c \in LowerChars THEN ToUpperMap[c] ELSE c
upper(s) == [k \in 1..Len(s) |-> ToUpper(s[k])]

----------------------------------------------------------------------------
(* String helpers (Python str methods)                                     *)

\* s[a..b], empty when the range is empty
Slice(s, a, b) == IF a > b THEN <<>> ELSE SubSeq(s, a, b)

\* str.strip()
RECURSIVE FirstNonSpace(_, _)
FirstNonSpace(s, k) ==
    IF k > Len(s) \/ s[k] \notin SpaceChars THEN k ELSE FirstNonSpace(s, k + 1)

RECURSIVE LastNonSpace(_, _)
LastNonSpace(s, k) ==
    IF k = 0 \/ s[k] \notin SpaceChars THEN k ELSE LastNonSpace(s, k - 1)

strip(s) == Slice(s, FirstNonSpace(s, 1), LastNonSpace(s, Len(s)))

\* sub in s
Contains(s, sub) ==
    \E p \in 1..(Len(s) - Len(sub) + 1) : Slice(s, p, p + Len(sub) - 1) = sub

\* s.startswith(sub)
startswith(s, sub) == Len(s) >= Len(sub) /\ Slice(s, 1, Len(sub)) = sub

\* any(c.islower() for c in s if c.isalpha())
HasLowercase(s) == \E k \in 1..Len(s) : s[k] \in LowerChars

\* "".join(parts)
RECURSIVE Concat(_)
Concat(parts) == IF parts = <<>> THEN <<>> ELSE Head(parts) \o Concat(Tail(parts))

----------------------------------------------------------------------------
(* Regular-expression helpers                                              *)

IsWordAt(s, p) == p >= 1 /\ p <= Len(s) /\ s[p] \in WordChars

\* \b between positions p-1 and p
Boundary(s, p) == IsWordAt(s, p - 1) # IsWordAt(s, p)

\* end (exclusive) of the longest run of characters of S starting at p
RECURSIVE RunEnd(_, _, _)
RunEnd(s, p, S) ==
    IF p > Len(s) \/ s[p] \notin S THEN p ELSE RunEnd(s, p + 1, S)

\* the literal w at position p, re.IGNORECASE
MatchCI(s, p, w) ==
    /\ p + Len(w) - 1 <= Len(s)
    /\ \A k \in 1..Len(w) : ToUpper(s[p + k - 1]) = w[k]

\* the literal w at position p, case-sensitive
MatchCS(s, p, w) ==
    /\ p + Len(w) - 1 <= Len(s)
    /\ \A k \in 1..Len(w) : s[p + k - 1] = w[k]

sACT == <<"A","C","T">>
sSCENE == <<"S","C","E","N","E">>
sScene == <<"S","c","e","n","e">>
sCHAPTER == <<"C","H","A","P","T","E","R">>
sPROLOGUE == <<"P","R","O","L","O","G","U","E">>
sEPILOGUE == <<"E","P","I","L","O","G","U","E">>
sPART == <<"P","A","R","T">>
ChapterWords == {sCHAPTER, sPROLOGUE, sEPILOGUE, sPART}

\* \bKW\s+([IVX]+|\d+)\b at position p: the exclusive end of the match, 0 if none
SmushedEnd(s, p, kw) ==
    IF ~MatchCI(s, p, kw) \/ ~Boundary(s, p) THEN 0
    ELSE LET a == p + Len(kw)
             b == RunEnd(s, a, SpaceChars)
             r == RunEnd(s, b, RomanChars)
             d == RunEnd(s, b, DigitChars)
         IN  IF b = a THEN 0
             ELSE IF r > b /\ Boundary(s, r) THEN r
             ELSE IF d > b /\ Boundary(s, d) THEN d
             ELSE 0

SetMin(S) == CHOOSE x \in S : \A y \in S : x <= y
SetMax(S) == CHOOSE x \in S : \A y \in S : x >= y

\* positions at which the pattern matches; a match begins with the keyword's
\* first letter
SmushedStarts(s, kw) ==
    {p \in 1..Len(s) : ToUpper(s[p]) = kw[1] /\ SmushedEnd(s, p, kw) > 0}

\* pattern.finditer(s): non-overlapping matches, leftmost first, scanning from pos
RECURSIVE FindSmushed(_, _, _, _, _)
FindSmushed(s, starts, pos, kw, level) ==
    LET cand == {p \in starts : p >= pos}
    IN  IF cand = {} THEN <<>>
        ELSE LET p == SetMin(cand)
                 e == SmushedEnd(s, p, kw)
             IN  <<[level |-> level, start |-> p, end |-> e]>>
                     \o FindSmushed(s, starts, e, kw, level)

SMUSHED_ACT_RE(s) == FindSmushed(s, SmushedStarts(s, sACT), 1, sACT, "act")
SMUSHED_SCENE_RE(s) == FindSmushed(s, SmushedStarts(s, sSCENE), 1, sSCENE, "scene")

\* \b(CHAPTER|PROLOGUE|EPILOGUE|PART)\s+([\dIVX]+|[A-Z][a-z]+)?\b at p
ChapterCoreEnd(s, p) ==
    LET kws == {kw \in ChapterWords : MatchCI(s, p, kw)}
    IN  IF ~Boundary(s, p) \/ kws = {} THEN 0
        ELSE LET kw == CHOOSE k \in kws : TRUE
                 a == p + Len(kw)
                 b == RunEnd(s, a, SpaceChars)
                 n == RunEnd(s, b, DigitChars \cup RomanChars)
                 l == RunEnd(s, b, LetterChars)
             IN  IF b = a THEN 0
                 ELSE IF n > b /\ Boundary(s, n) THEN n
                 ELSE IF l >= b + 2 /\ Boundary(s, l) THEN l
                 ELSE IF Boundary(s, b) THEN b
                 ELSE 0

\* ^(?:[\d\s]*)?\b(CHAPTER|...)...  : finditer gives at most the match at 0
CHAPTER_RE(s) ==
    LET q == RunEnd(s, 1, DigitChars \cup SpaceChars)
        e == ChapterCoreEnd(s, q)
    IN  IF e > 0 THEN <<[level |-> "chapter", start |-> 1, end |-> e]>> ELSE <<>>

\* matches.sort(key=start) of the act matches followed by the scene matches
RECURSIVE SortByStart(_, _)
SortByStart(xs, ys) ==
    IF xs = <<>> THEN ys
    ELSE IF ys = <<>> THEN xs
    ELSE IF Head(xs).start <= Head(ys).start
         THEN <<Head(xs)>> \o SortByStart(Tail(xs), ys)
         ELSE <<Head(ys)>> \o SortByStart(xs, Tail(ys))

----------------------------------------------------------------------------
(* StructuralSegmenter._tokenise                                           *)

ContentToken(text) == [type |-> "content", text |-> text]
HeadingToken(level, title) ==
    [type |-> "heading", level |-> level, title |-> title, inferred |-> FALSE]

\* a window twice as wide
NoiseWindow_wide == 2 * 20

NoiseWindow == 20

\* the noise filter of _tokenise: lowercase near the match and no "Scene"
IsNoise(s, m) ==
    LET window == Slice(s, Max(1, m.start - NoiseWindow),
                           Min(Len(s), m.end - 1 + NoiseWindow))
        match_txt == Slice(s, m.start, m.end - 1)
    IN  /\ HasLowercase(window)
        /\ ~Contains(match_txt, sScene)
        /\ ~Contains(window, sScene)

LineMatches(s, doc_type) ==
    IF doc_type = "play"
    THEN SortByStart(SMUSHED_ACT_RE(s), SMUSHED_SCENE_RE(s))
    ELSE CHAPTER_RE(s)

RECURSIVE EmitTokens(_, _, _, _)

\* last_pos moved past a match also when the match is discarded
EmitTokens_skip(s, ms, k, last_pos) ==
    IF k > Len(ms)
    THEN LET after == strip(Slice(s, last_pos, Len(s)))
         IN  IF after # <<>> THEN <<ContentToken(after)>> ELSE <<>>
    ELSE LET m == ms[k]
         IN  IF IsNoise(s, m) THEN EmitTokens(s, ms, k + 1, m.end)
             ELSE LET before == strip(Slice(s, last_pos, m.start - 1))
                  IN  (IF before # <<>> THEN <<ContentToken(before)>> ELSE <<>>)
                      \o <<HeadingToken(m.level, Slice(s, m.start, m.end - 1))>>
                      \o EmitTokens(s, ms, k + 1, m.end)

\* step 3 of _tokenise: filter the matches and emit the tokens of one line
EmitTokens(s, ms, k, last_pos) ==
    IF k > Len(ms)
    THEN LET after == strip(Slice(s, last_pos, Len(s)))
         IN  IF after # <<>> THEN <<ContentToken(after)>> ELSE <<>>
    ELSE LET m == ms[k]
         IN  IF IsNoise(s, m) THEN EmitTokens(s, ms, k + 1, last_pos)
             ELSE LET before == strip(Slice(s, last_pos, m.start - 1))
                  IN  (IF before # <<>> THEN <<ContentToken(before)>> ELSE <<>>)
                      \o <<HeadingToken(m.level, Slice(s, m.start, m.end - 1))>>
                      \o EmitTokens(s, ms, k + 1, m.end)

\* "".join(span texts).strip()
LineText(l) == strip(Concat([k \in 1..Len(l.spans) |-> l.spans[k].text]))

TokeniseLine(l, doc_type) ==
    LET line_txt == LineText(l)
    IN  IF line_txt = <<>> THEN <<>>
        ELSE EmitTokens(line_txt, LineMatches(line_txt, doc_type), 1, 1)

RECURSIVE TokeniseLines(_, _)
TokeniseLines(ls, doc_type) ==
    IF ls = <<>> THEN <<>>
    ELSE TokeniseLine(Head(ls), doc_type) \o TokeniseLines(Tail(ls), doc_type)

RECURSIVE tokenise(_, _)
tokenise(blocks, doc_type) ==
    IF blocks = <<>> THEN <<>>
    ELSE (IF Head(blocks).type # 0 THEN <<>>
          ELSE TokeniseLines(Head(blocks).lines, doc_type))
         \o tokenise(Tail(blocks), doc_type)

----------------------------------------------------------------------------
(* StructuralSegmenter._analyse_play_content                               *)

CueClass == UpperChars \cup SpaceChars \cup {"'", "."}
CueMinLen == 3
CueMaxLen == 30

\* ^[A-Z][A-Z\s'\.]{1,28}[A-Z]\.?\s*$
\* the tail \.?\s*$ fixes the closing [A-Z]: the last non-blank character, or
\* the one before it when that character is a full stop
CUE_RE(s) ==
    LET t == LastNonSpace(s, Len(s))
        p == IF t >= 1 /\ s[t] = "." THEN t - 1 ELSE t
    IN  /\ p >= CueMinLen
        /\ p <= CueMaxLen
        /\ s[1] \in UpperChars
        /\ s[p] \in UpperChars
        /\ \A k \in 2..(p - 1) : s[k] \in CueClass

LongLine == 1000

\* blocks[-1]["content"] += (" " + line if blocks[-1]["content"] else line)
AppendToLast(bs, line) ==
    [bs EXCEPT ![Len(bs)].content = IF @ # <<>> THEN @ \o <<" ">> \o line ELSE line]

\* the line extends whatever block comes last
ContinueOrNarrative_any(bs, line) ==
    IF bs # <<>>
    THEN AppendToLast(bs, line)
    ELSE Append(bs, [type |-> "narrative", content |-> line])

ContinueOrNarrative(bs, line) ==
    IF bs # <<>> /\ bs[Len(bs)].type = "dialogue"
    THEN AppendToLast(bs, line)
    ELSE Append(bs, [type |-> "narrative", content |-> line])

AnalyseLine(bs, line) ==
    IF Len(line) > LongLine THEN ContinueOrNarrative(bs, line)
    ELSE IF CUE_RE(line)
         THEN Append(bs, [type |-> "dialogue", character |-> line, content |-> <<>>])
    ELSE IF startswith(line, <<"[">>) \/ startswith(line, <<"(">>)
         THEN Append(bs, [type |-> "stage_direction", content |-> line])
    ELSE ContinueOrNarrative(bs, line)

RECURSIVE AnalyseFrom(_, _)
AnalyseFrom(bs, lines) ==
    IF lines = <<>> THEN bs ELSE AnalyseFrom(AnalyseLine(bs, Head(lines)), Tail(lines))

analyse_play_content(lines) == AnalyseFrom(<<>>, lines)

----------------------------------------------------------------------------
(* StructuralSegmenter._build_play_hierarchy: helpers                      *)

None == [none |-> TRUE]

sACT_I == <<"A","C","T"," ","I">>
sScene_1 == <<"S","c","e","n","e"," ","1">>
sThePlay == <<"T","h","e"," ","P","l","a","y">>
sContent == <<"C","o","n","t","e","n","t">>
sBeginning == <<"B","e","g","i","n","n","i","n","g">>

TocLookahead == 8
TocMinHeadings == 4
TocMaxContent == 200

IsHeading(t) == t.type = "heading"
IsContent(t) == t.type = "content"

RECURSIVE SumLen(_, _, _)
\* total length of the content tokens toks[a..b]
SumLen(toks, a, b) ==
    IF a > b THEN 0
    ELSE (IF IsContent(toks[a]) THEN Len(toks[a].text) ELSE 0) + SumLen(toks, a + 1, b)

\* headings among the TocLookahead tokens starting at i
cluster_indices(toks, i) ==
    {j \in i..(Min(i + TocLookahead, Len(toks) + 1) - 1) : IsHeading(toks[j])}

IsTocCluster(toks, i) ==
    LET c == cluster_indices(toks, i)
    IN  /\ IsHeading(toks[i])
        /\ Cardinality(c) >= TocMinHeadings
        /\ SumLen(toks, SetMin(c), SetMax(c) - 1) < TocMaxContent

\* the TOC pass marking only the heading that opens a dense window
toc_detect_first(toks) == {k \in 1..Len(toks) : IsTocCluster(toks, k)}

\* the TOC pass of _build_play_hierarchy
toc_detect(toks) ==
    UNION {cluster_indices(toks, i) : i \in {k \in 1..Len(toks) : IsTocCluster(toks, k)}}

\* flush() that leaves the buffer as it is
flush_noclear(scene, buffer) ==
    IF scene # None /\ buffer # <<>>
    THEN [scene |-> [scene EXCEPT !.blocks = @ \o analyse_play_content(buffer)],
          buffer |-> buffer]
    ELSE [scene |-> scene, buffer |-> buffer]

\* flush(): move the buffered lines into the open scene
flush(scene, buffer) ==
    IF scene # None /\ buffer # <<>>
    THEN [scene |-> [scene EXCEPT !.blocks = @ \o analyse_play_content(buffer)],
          buffer |-> <<>>]
    ELSE [scene |-> scene, buffer |-> buffer]

\* the containment test on the titles as written
IsRepeat_cased(t, act) == Contains(act.title, t.title)

\* the containment test the other way round
IsRepeat_reversed(t, act) == Contains(upper(t.title), upper(act.title))

\* t["title"].upper() in cur_act["title"].upper()
IsRepeat(t, act) == Contains(upper(act.title), upper(t.title))

\* evaluating  t["level"] == "act" and next_t and next_t["level"] == "scene"
\* raises KeyError when next_t is a content token
ScenedActRaises(toks, i) ==
    /\ toks[i].level = "act"
    /\ i + 1 <= Len(toks)
    /\ ~IsHeading(toks[i + 1])

RECURSIVE ContentTexts(_)
ContentTexts(toks) ==
    IF toks = <<>> THEN <<>>
    ELSE (IF IsContent(Head(toks)) THEN <<Head(toks).text>> ELSE <<>>)
         \o ContentTexts(Tail(toks))

fallback_single_unit(toks, id) ==
    <<[id |-> id, title |-> sThePlay,
       children |-> <<[id |-> id + 1, title |-> sContent,
                       blocks |-> analyse_play_content(ContentTexts(toks))]>>]>>

\* "\n\n".join(paragraphs)
RECURSIVE JoinBlank(_)
JoinBlank(ps) ==
    IF ps = <<>> THEN <<>>
    ELSE IF Len(ps) = 1 THEN ps[1]
    ELSE ps[1] \o <<"\n", "\n">> \o JoinBlank(Tail(ps))

NewChapter(id, title) ==
    [id |-> id, title |-> title,
     children |-> <<[id |-> id + 1, title |-> <<>>, paragraphs |-> <<>>]>>]

\* the closing loop of _build_novel_hierarchy: s["content"] = join(paragraphs)
RollUp(c) ==
    [c EXCEPT !.children =
        [k \in 1..Len(c.children) |->
            [id |-> c.children[k].id, title |-> c.children[k].title,
             paragraphs |-> c.children[k].paragraphs,
             content |-> JoinBlank(c.children[k].paragraphs)]]]

----------------------------------------------------------------------------
(* ContentClassifier: pattern library                                      *)

\* _ACT_RE.search / _SCENE_RE.search
ACT_RE(t) == SmushedStarts(t, sACT) # {}
SCENE_RE(t) == SmushedStarts(t, sSCENE) # {}

\* len(t.split())
WordCount(t) ==
    Cardinality({k \in 1..Len(t) :
                    t[k] \notin SpaceChars /\ (k = 1 \/ t[k - 1] \in SpaceChars)})

CueMaxWords == 5

\* ^[\[(].*[\])]$
STAGE_RE(t) == Len(t) >= 2 /\ t[1] \in {"[", "("} /\ t[Len(t)] \in {"]", ")"}

sENTER == <<"E","N","T","E","R">>
sEXIT == <<"E","X","I","T">>
sEXEUNT == <<"E","X","E","U","N","T">>
sASIDE == <<"A","S","I","D","E">>
sTO == <<"T","O">>

\* \((?:Enter|Exit|Exeunt|Aside|to\s+\w+)[^)]*\)  with re.IGNORECASE
STAGE_VERB(t) ==
    \E p \in 1..Len(t) :
        /\ t[p] = "("
        /\ \/ \E w \in {sENTER, sEXIT, sEXEUNT, sASIDE} :
                 /\ MatchCI(t, p + 1, w)
                 /\ \E q \in (p + 1 + Len(w))..Len(t) : t[q] = ")"
           \/ /\ MatchCI(t, p + 1, sTO)
              /\ LET b == RunEnd(t, p + 3, SpaceChars)
                 IN  /\ b > p + 3
                     /\ IsWordAt(t, b)
                     /\ \E q \in (b + 1)..Len(t) : t[q] = ")"

sDRAMATIS == <<"D","R","A","M","A","T","I","S">>
sCAST_OF == <<"C","A","S","T"," ","O","F">>
sLIST_OF == <<"L","I","S","T"," ","O","F">>
sPERSONAE == <<"P","E","R","S","O","N","A","E">>
sCHARACTERS == <<"C","H","A","R","A","C","T","E","R","S">>

\* (DRAMATIS|CAST OF|LIST OF)\s+(PERSONAE|CHARACTERS)  with re.IGNORECASE
CAST_RE(t) ==
    \E p \in 1..Len(t) : \E w \in {sDRAMATIS, sCAST_OF, sLIST_OF} :
        /\ MatchCI(t, p, w)
        /\ LET b == RunEnd(t, p + Len(w), SpaceChars)
           IN  /\ b > p + Len(w)
               /\ \E v \in {sPERSONAE, sCHARACTERS} : MatchCI(t, b, v)

\* the classifier's unanchored chapter pattern, .search
CHAPTER_RE_search(t) == \E p \in 1..Len(t) : ChapterCoreEnd(t, p) > 0

\* \bI\b(?:'[a-z]+)?\s  at position p
FirstPersAt(t, p) ==
    /\ t[p] = "I"
    /\ Boundary(t, p)
    /\ Boundary(t, p + 1)
    /\ LET r == RunEnd(t, p + 2, LowerChars)
       IN  \/ p + 1 <= Len(t) /\ t[p + 1] \in SpaceChars
           \/ /\ p + 1 <= Len(t) /\ t[p + 1] = "'"
              /\ r > p + 2
              /\ r <= Len(t) /\ t[r] \in SpaceChars

\* len(_FIRST_PERS.findall(t))
FIRST_PERS_count(t) == Cardinality({p \in 1..Len(t) : FirstPersAt(t, p)})

SaidWords ==
    { <<"s","a","i","d">>, <<"r","e","p","l","i","e","d">>,
      <<"w","h","i","s","p","e","r","e","d">>, <<"s","h","o","u","t","e","d">>,
      <<"m","u","r","m","u","r","e","d">>, <<"a","s","k","e","d">> }

\* \b(said|replied|whispered|shouted|murmured|asked)\b
SAID_RE(t) ==
    \E p \in 1..Len(t) : \E w \in SaidWords :
        MatchCS(t, p, w) /\ Boundary(t, p) /\ Boundary(t, p + Len(w))

ProseClass == LowerChars \cup SpaceChars \cup {",", ";"}
ProseMinRun == 60

\* [a-z][a-z\s,;]{60,}[.!?]
PROSE_RE(t) ==
    \E q \in 1..Len(t) :
        /\ t[q] \in {".", "!", "?"}
        /\ q - ProseMinRun - 1 >= 1
        /\ \A k \in (q - ProseMinRun)..(q - 1) : t[k] \in ProseClass
        /\ \E p \in 1..(q - ProseMinRun - 1) :
              /\ t[p] \in LowerChars
              /\ \A k \in (p + 1)..(q - ProseMinRun - 1) : t[k] \in ProseClass

----------------------------------------------------------------------------
(* ContentClassifier.classify                                              *)

\* _WEIGHTS, in hundredths
W_act_heading == 800
W_scene_heading == 800
W_character_cue == 200
W_stage_direction == 300
W_cast_page == 1000
W_stage_verb == 200
W_chapter_heading == 600
W_first_person == 30
W_said_tag == 50
W_prose_sentence == 10

\* a threshold of 1.0
MIN_EVIDENCE_low == 200 \div 2

\* MIN_EVIDENCE, in hundredths
MIN_EVIDENCE == 200

\* the discount 0.2 of the first tenth of the lines, as a divisor
IntroDivisor == 5

\* ml_probs * 10.0, for probabilities in tenths and scores in hundredths
MlScale == 100

\* fixed confidences, in thousandths
OverrideConfidence == 950
GenericConfidence == 500

SignalKeys ==
    {"act_heading", "scene_heading", "character_cue", "stage_direction", "cast_page",
     "stage_verb", "chapter_heading", "first_person", "said_tag", "prose_sentence"}

ZeroSignals == [k \in SignalKeys |-> 0]

RECURSIVE LinesOf(_)
LinesOf(ls) ==
    IF ls = <<>> THEN <<>>
    ELSE (IF LineText(Head(ls)) # <<>> THEN <<LineText(Head(ls))>> ELSE <<>>)
         \o LinesOf(Tail(ls))

\* _extract_lines
RECURSIVE extract_lines(_)
extract_lines(bs) ==
    IF bs = <<>> THEN <<>>
    ELSE (IF Head(bs).type # 0 THEN <<>> ELSE LinesOf(Head(bs).lines))
         \o extract_lines(Tail(bs))

B(cond) == IF cond THEN 1 ELSE 0

\* what one line adds to the signal counts
LineSignals(t) ==
    [ act_heading |-> B(ACT_RE(t)),
      scene_heading |-> B(SCENE_RE(t)),
      character_cue |-> B(CUE_RE(t) /\ WordCount(t) <= CueMaxWords),
      stage_direction |-> B(STAGE_RE(t) \/ STAGE_VERB(t)),
      cast_page |-> B(CAST_RE(t)),
      stage_verb |-> 0,
      chapter_heading |-> B(CHAPTER_RE_search(t)),
      first_person |-> FIRST_PERS_count(t),
      said_tag |-> B(SAID_RE(t)),
      prose_sentence |-> B(PROSE_RE(t)) ]

PlayPoints(g) ==
    g.act_heading * W_act_heading + g.scene_heading * W_scene_heading
    + g.character_cue * W_character_cue + g.stage_direction * W_stage_direction
    + g.cast_page * W_cast_page

\* is_intro = idx < line_count * 0.1  (idx is 0-based)
is_intro(idx, line_count) == 10 * idx < line_count

NovelPoints(g, intro) ==
    g.chapter_heading * W_chapter_heading
    + (g.first_person * W_first_person + g.said_tag * W_said_tag
       + g.prose_sentence * W_prose_sentence) \div (IF intro THEN IntroDivisor ELSE 1)

\* the scoring loop of classify from line k on
RECURSIVE ScoreLines(_, _, _)
ScoreLines(lines, k, acc) ==
    IF k > Len(lines) THEN acc
    ELSE LET g == LineSignals(strip(lines[k]))
         IN  ScoreLines(lines, k + 1,
                 [play_score |-> acc.play_score + PlayPoints(g),
                  novel_score |-> acc.novel_score
                                    + NovelPoints(g, is_intro(k - 1, Len(lines))),
                  signals |-> [key \in SignalKeys |-> acc.signals[key] + g[key]]])

NoModel == [loaded |-> FALSE, play |-> 0, novel |-> 0]

\* round(x, 3) of num/den, in thousandths, ties to even
Round3(num, den) ==
    LET q == (1000 * num) \div den
        r == (1000 * num) % den
    IN  IF 2 * r < den THEN q
        ELSE IF 2 * r > den THEN q + 1
        ELSE IF q % 2 = 0 THEN q ELSE q + 1

ClassificationResult(type, confidence, play_score, novel_score, ml_probs, signals) ==
    [type |-> type, confidence |-> confidence, play_score |-> play_score,
     novel_score |-> novel_score, ml_probabilities |-> ml_probs, signals |-> signals]

\* the override without its three-acts alternative
StrictOverride_actscene(signals) ==
    signals.act_heading >= 1 /\ signals.scene_heading >= 1

\* the strict override for plays
StrictOverride(signals) ==
    \/ signals.act_heading >= 1 /\ signals.scene_heading >= 1
    \/ signals.act_heading >= 3

\* the decision rule with the play share as confidence, whatever the winner
Decide_ratio(play_score, novel_score, ml_probs, signals) ==
    IF StrictOverride(signals)
    THEN ClassificationResult("play", OverrideConfidence, play_score, novel_score,
                              ml_probs, signals)
    ELSE IF play_score + novel_score < MIN_EVIDENCE
    THEN ClassificationResult("generic", GenericConfidence, play_score, novel_score,
                              ml_probs, signals)
    ELSE ClassificationResult(IF play_score > novel_score THEN "play" ELSE "novel",
                              Round3(play_score, play_score + novel_score),
                              play_score, novel_score, ml_probs, signals)

\* the decision rule giving a tie to play
Decide_tie_play(play_score, novel_score, ml_probs, signals) ==
    IF StrictOverride(signals)
    THEN ClassificationResult("play", OverrideConfidence, play_score, novel_score,
                              ml_probs, signals)
    ELSE IF play_score + novel_score < MIN_EVIDENCE
    THEN ClassificationResult("generic", GenericConfidence, play_score, novel_score,
                              ml_probs, signals)
    ELSE ClassificationResult(IF play_score >= novel_score THEN "play" ELSE "novel",
                              Round3(Max(play_score, novel_score),
                                     play_score + novel_score),
                              play_score, novel_score, ml_probs, signals)

\* the decision rule of classify
Decide(play_score, novel_score, ml_probs, signals) ==
    IF StrictOverride(signals)
    THEN ClassificationResult("play", OverrideConfidence, play_score, novel_score,
                              ml_probs, signals)
    ELSE IF play_score + novel_score < MIN_EVIDENCE
    THEN ClassificationResult("generic", GenericConfidence, play_score, novel_score,
                              ml_probs, signals)
    ELSE ClassificationResult(IF play_score > novel_score THEN "play" ELSE "novel",
                              Round3(Max(play_score, novel_score),
                                     play_score + novel_score),
                              play_score, novel_score, ml_probs, signals)

\* classify blending the model's answer even when there is no text
classify_always_ml(all_blocks, ml) ==
    LET lines == extract_lines(all_blocks)
        h == ScoreLines(lines, 1,
                 [play_score |-> 0, novel_score |-> 0, signals |-> ZeroSignals])
        ml_probs == IF ml.loaded THEN [play |-> ml.play, novel |-> ml.novel]
                    ELSE [play |-> 0, novel |-> 0]
    IN  Decide(h.play_score + ml_probs.play * MlScale,
               h.novel_score + ml_probs.novel * MlScale,
               ml_probs, h.signals)

\* classify(all_blocks); ml is what the pretrained model answers, if loaded
classify(all_blocks, ml) ==
    LET lines == extract_lines(all_blocks)
        h == ScoreLines(lines, 1,
                 [play_score |-> 0, novel_score |-> 0, signals |-> ZeroSignals])
        use_ml == ml.loaded /\ lines # <<>>
        ml_probs == IF use_ml THEN [play |-> ml.play, novel |-> ml.novel]
                    ELSE [play |-> 0, novel |-> 0]
    IN  Decide(h.play_score + ml_probs.play * MlScale,
               h.novel_score + ml_probs.novel * MlScale,
               ml_probs, h.signals)

----------------------------------------------------------------------------
(* Inputs: block lists as the extraction layer hands them over             *)

Span(text) == [text |-> text]
Line(spans) == [spans |-> spans]
TextBlock(text) == [type |-> 0, lines |-> <<Line(<<Span(text)>>)>>]
\* a text block of two lines
TwoLineBlock(a, b) == [type |-> 0, lines |-> <<Line(<<Span(a)>>), Line(<<Span(b)>>)>>]

SeqsUpTo(S, n) == UNION {[1..k -> S] : k \in 0..n}

Rep(c, n) == [k \in 1..n |-> c]

sACT_II == <<"A","C","T"," ","I","I">>
sSCENE_1 == <<"S","C","E","N","E"," ","1">>
sHamletLine == <<"H","A","M","L","E","T","."," ","l","i","n","e">>
sLongLine == Rep("x", TocMaxContent)

sChapter_1 == <<"C","h","a","p","t","e","r"," ","1">>
sChapter_2 == <<"C","h","a","p","t","e","r"," ","2">>
sCHAPTER_1 == <<"C","H","A","P","T","E","R"," ","1">>
sParaA == <<"p","a","r","a"," ","A">>
sParaB == <<"p","a","r","a"," ","B">>

MaxPlayBlocks == 4
MaxNovelBlocks == 4
MaxSpans == 3
MaxSparseBlocks == 3

PlayBlocks ==
    {TextBlock(t) : t \in {sACT_I, sACT_II, sSCENE_1, sHamletLine, sLongLine}}
    \cup {TwoLineBlock(sACT_II, sSCENE_1)}
PlayDocs == SeqsUpTo(PlayBlocks, MaxPlayBlocks)

NovelBlocks ==
    {TextBlock(t) : t \in {sChapter_1, sCHAPTER_1, sParaA, sParaB}}
    \cup {TwoLineBlock(sCHAPTER_1, sCHAPTER_1), TwoLineBlock(sParaA, sParaB)}
NovelDocs == SeqsUpTo(NovelBlocks, MaxNovelBlocks)

spACT_I == Span(<<"A","C","T"," ","I"," ">>)
spSCENE_1 == Span(<<"S","C","E","N","E"," ","1"," ">>)
spScene_2 == Span(<<"S","c","e","n","e"," ","2"," ">>)
spHamletSpeaks == Span(<<"H","A","M","L","E","T"," ","s","p","e","a","k","s"," ">>)
spHAMLET_SPEAKS == Span(<<"H","A","M","L","E","T"," ","S","P","E","A","K","S"," ">>)
spMacbeth == Span(<<"1","8","7"," ","M","a","c","b","e","t","h"," ">>)
spFarSpeaks == Span(Rep("X", 20) \o <<" ">> \o spHamletSpeaks.text)
spCHAPTER_1 == Span(<<"C","H","A","P","T","E","R"," ","1"," ">>)
spActSpeaksScene == Span(spACT_I.text \o spHAMLET_SPEAKS.text \o spSCENE_1.text)

\* one block holding one line that the extractor split into several spans
SmushedSpans ==
    {spACT_I, spSCENE_1, spScene_2, spHamletSpeaks, spHAMLET_SPEAKS, spMacbeth,
     spFarSpeaks, spCHAPTER_1, spActSpeaksScene}
SmushedDoc(sp) == <<[type |-> 0, lines |-> <<Line(sp)>>]>>
SmushedDocs == {SmushedDoc(sp) : sp \in SeqsUpTo(SmushedSpans, MaxSpans)}

\* blocks that carry no text: images, empty blocks, empty and blank lines
SparseBlocks ==
    { [type |-> 1, lines |-> <<Line(<<Span(sACT_I)>>)>>],
      [type |-> 1, lines |-> <<>>],
      [type |-> 0, lines |-> <<>>],
      [type |-> 0, lines |-> <<Line(<<>>)>>],
      TextBlock(<<>>),
      TextBlock(<<" ", " ">>),
      TextBlock(sSCENE_1) }
SparseDocs == SeqsUpTo(SparseBlocks, MaxSparseBlocks)

sIntroduction == <<"I","n","t","r","o","d","u","c","t","i","o","n">>
sISaid == <<"I"," ","s","a","i","d"," ","s","o">>
sCue == <<"H","A","M","L","E","T",".">>
sStage == <<"[","E","n","t","e","r","]">>
sCast == <<"D","R","A","M","A","T","I","S"," ","P","E","R","S","O","N","A","E">>
sProse == <<"i","t"," ","w","a","s"," ">> \o Rep("a", ProseMinRun) \o <<".">>

MaxClassifyBlocks == 2

\* lines carrying each signal of the classifier, and one carrying none
ClassifyBlocks ==
    {TextBlock(t) : t \in {sACT_I, sSCENE_1, sChapter_1, sISaid, sProse, sCue,
                           sStage, sCast, sIntroduction}}
    \cup {TwoLineBlock(sChapter_1, sChapter_2), TwoLineBlock(sACT_I, sSCENE_1),
          TwoLineBlock(sISaid, sISaid), TwoLineBlock(sACT_I, sACT_II)}
ClassifyDocs == SeqsUpTo(ClassifyBlocks, MaxClassifyBlocks)

sACT_III == <<"A","C","T"," ","I","I","I">>
sAct_i_Scene_2 == <<"a","c","t"," ","i"," ","S","c","e","n","e"," ","2">>

MaxRepeatTail == 2

\* a play that opens an act (ACT I, ACT III, or the act inferred for a scene)
\* and a scene with one line of content, followed by further headings and lines
RepeatOpenings ==
    {<<TwoLineBlock(sACT_I, sSCENE_1), TextBlock(sHamletLine)>>,
     <<TwoLineBlock(sACT_III, sSCENE_1), TextBlock(sHamletLine)>>,
     <<TextBlock(sSCENE_1), TextBlock(sHamletLine)>>}
RepeatBlocks ==
    {TextBlock(t) : t \in {sACT_I, sACT_II, sACT_III, sAct_i_Scene_2, sHamletLine,
                           sCue, sStage}}
RepeatDocs ==
    {o \o t : o \in RepeatOpenings, t \in SeqsUpTo(RepeatBlocks, MaxRepeatTail)}

\* what the pretrained model may answer, in tenths; NoModel when none is loaded
MLOutcomes ==
    {NoModel} \cup {[loaded |-> TRUE, play |-> a, novel |-> 10 - a] : a \in {0, 5, 10}}

DocTypes == {"play", "novel", "generic"}

----------------------------------------------------------------------------
(* LiteratureAnalyzer._flatten_units                                       *)

sDash == <<" ", "-", " ">>

\* scene.get("inferred")
GetInferred(scene) == IF "inferred" \in DOMAIN scene THEN scene.inferred ELSE FALSE

\* the text one play block adds to full_content
BlockText(b) ==
    IF b.type = "dialogue" THEN b.character \o <<":", " ">> \o b.content
    ELSE IF b.type = "stage_direction" THEN <<"[">> \o b.content \o <<"]">>
    ELSE b.content

\* the record of one scene of a play
FlatScene(act, scene) ==
    [title |-> IF ~GetInferred(scene) THEN act.title \o sDash \o scene.title
               ELSE act.title,
     content |-> JoinBlank([k \in 1..Len(scene.blocks) |-> BlockText(scene.blocks[k])]),
     blocks |-> scene.blocks]

\* the record of one section of a novel
FlatSection(chapter, section) ==
    [title |-> IF section.title # <<>> THEN chapter.title \o sDash \o section.title
               ELSE chapter.title,
     content |-> IF "content" \in DOMAIN section /\ section.content # <<>>
                 THEN section.content
                 ELSE JoinBlank(section.paragraphs),
     dialogue |-> <<>>]

\* the records of one top-level unit, children in order
FlatUnit(unit, doc_type) ==
    [k \in 1..Len(unit.children) |->
        IF doc_type = "play" THEN FlatScene(unit, unit.children[k])
        ELSE FlatSection(unit, unit.children[k])]

RECURSIVE flatten_units(_, _)
flatten_units(units, doc_type) ==
    IF units = <<>> THEN <<>>
    ELSE FlatUnit(Head(units), doc_type) \o flatten_units(Tail(units), doc_type)

----------------------------------------------------------------------------
(* State                                                                   *)

VARIABLES
    call,                 \* which entry point runs: "segment" or "classify"
    blocks,               \* all_blocks, the caller's input
    doc_type,             \* the doc_type argument of segment
    pc,                   \* position in the running call
    tokens,               \* result of _tokenise
    toc_indices,          \* _build_play_hierarchy: suppressed heading indices
    i,                    \* index of the next token of the builder loop (1-based)
    acts, cur_act, cur_scene, content_buffer, first_heading_found,
    chapters, cur_chapter,
    uid,                  \* number of ids _uid() has handed out
    result,               \* the value segment returns
    exc,                  \* the exception that left the call, if any
    clf,                  \* the ClassificationResult classify returns
    flat,                 \* what _flatten_units returns for the hierarchy
    model,                \* ContentClassifier.model, set by the constructor
    caller,               \* the call that is running
    other                 \* the suspended calls' local variables, by caller

segVars == <<tokens, toc_indices, i, acts, cur_act, cur_scene, content_buffer,
             first_heading_found, chapters, cur_chapter, uid, result, exc>>
vars == <<call, blocks, doc_type, pc, segVars, clf, flat, model, caller, other>>

playVars == <<acts, cur_act, cur_scene, content_buffer, first_heading_found>>
novelVars == <<chapters, cur_chapter>>
inputVars == <<call, blocks, doc_type>>
\* the shared classifier instance and the scheduling of calls
concVars == <<model, caller, other>>

InitLocals ==
    /\ tokens = <<>>
    /\ toc_indices = {}
    /\ i = 1
    /\ acts = <<>>
    /\ cur_act = None
    /\ cur_scene = None
    /\ content_buffer = <<>>
    /\ first_heading_found = FALSE
    /\ chapters = <<>>
    /\ cur_chapter = None
    /\ uid = 0
    /\ result = None
    /\ exc = "none"
    /\ clf = None
    /\ flat = None

InitSegment ==
    /\ call = "segment"
    /\ pc = "tokenise"
    /\ \/ blocks \in PlayDocs \cup RepeatDocs /\ doc_type = "play"
       \/ blocks \in NovelDocs /\ doc_type \in {"novel", "generic"}
       \/ blocks \in SmushedDocs \cup SparseDocs /\ doc_type \in DocTypes
    /\ InitLocals
    /\ model = NoModel
    /\ caller = 1
    /\ other = <<>>

InitClassify ==
    /\ call = "classify"
    /\ pc = "classify"
    /\ blocks \in ClassifyDocs \cup SparseDocs
    /\ doc_type = "-"
    /\ InitLocals
    /\ model \in MLOutcomes
    /\ caller = 1
    /\ other = <<>>

----------------------------------------------------------------------------
(* ContentClassifier.classify as one step                                  *)

Classify ==
    /\ pc = "classify"
    /\ clf' = classify(blocks, model)
    /\ pc' = "done"
    /\ UNCHANGED <<inputVars, concVars, flat, segVars>>

----------------------------------------------------------------------------
(* StructuralSegmenter.segment                                             *)

\* segment: tokenise, then dispatch on doc_type
Tokenise ==
    /\ pc = "tokenise"
    /\ tokens' = tokenise(blocks, doc_type)
    /\ pc' = IF doc_type = "play" THEN "play_start" ELSE "novel_start"
    /\ UNCHANGED <<inputVars, concVars, flat, toc_indices, i, playVars, novelVars, uid, result, exc, clf>>

\* _build_play_hierarchy up to the main loop: locals and the TOC pass
BuildPlayStart ==
    /\ pc = "play_start"
    /\ toc_indices' = toc_detect(tokens)
    /\ acts' = <<>>
    /\ cur_act' = None
    /\ cur_scene' = None
    /\ content_buffer' = <<>>
    /\ first_heading_found' = FALSE
    /\ i' = 1
    /\ pc' = "play_loop"
    /\ UNCHANGED <<inputVars, concVars, flat, tokens, novelVars, uid, result, exc, clf>>

AtToken == pc = "play_loop" /\ i <= Len(tokens)

AtHeading == AtToken /\ IsHeading(tokens[i])

InToc == AtHeading /\ i \in toc_indices

IsRepeatedAct ==
    /\ AtHeading
    /\ tokens[i].level = "act"
    /\ cur_act # None
    /\ IsRepeat(tokens[i], cur_act)

\* a heading that passed both skips and the is_scened_act evaluation
Surviving == AtHeading /\ ~InToc /\ ~IsRepeatedAct /\ ~ScenedActRaises(tokens, i)

\* heading inside a TOC cluster: continue
PlaySkipToc ==
    /\ InToc
    /\ i' = i + 1
    /\ UNCHANGED <<inputVars, concVars, flat, pc, tokens, toc_indices, playVars, novelVars, uid, result, exc, clf>>

\* act heading repeating the open act's title: continue
PlaySkipRepeat ==
    /\ AtHeading /\ ~InToc
    /\ IsRepeatedAct
    /\ i' = i + 1
    /\ UNCHANGED <<inputVars, concVars, flat, pc, tokens, toc_indices, playVars, novelVars, uid, result, exc, clf>>

\* next_t["level"] on a content token: KeyError leaves segment
PlayRaise ==
    /\ AtHeading /\ ~InToc /\ ~IsRepeatedAct
    /\ ScenedActRaises(tokens, i)
    /\ pc' = "raised"
    /\ exc' = "KeyError"
    /\ UNCHANGED <<inputVars, concVars, flat, tokens, toc_indices, i, playVars, novelVars, uid, result, clf>>

NewAct(id, title) == [id |-> id, title |-> title, children |-> <<>>]
NewScene(id, title) == [id |-> id, title |-> title, blocks |-> <<>>]

\* a scene is attached only when it holds blocks
AppendChild_nonempty(act, scene) ==
    IF act # None /\ scene # None /\ scene.blocks # <<>>
    THEN [act EXCEPT !.children = Append(@, scene)]
    ELSE act

AppendChild(act, scene) ==
    IF act # None /\ scene # None
    THEN [act EXCEPT !.children = Append(@, scene)]
    ELSE act

\* the act branch of the loop body
PlayActHeading ==
    /\ Surviving
    /\ tokens[i].level = "act"
    /\ LET f == flush(cur_scene, content_buffer)
       IN  /\ content_buffer' = f.buffer
           /\ IF cur_act # None /\ (cur_act.children # <<>> \/ f.buffer # <<>>)
              THEN /\ acts' = Append(acts, AppendChild(cur_act, f.scene))
                   /\ cur_act' = NewAct(uid + 1, tokens[i].title)
                   /\ cur_scene' = None
                   /\ uid' = uid + 1
              ELSE IF cur_act = None
              THEN /\ acts' = acts
                   /\ cur_act' = NewAct(uid + 1, tokens[i].title)
                   /\ cur_scene' = None
                   /\ uid' = uid + 1
              ELSE /\ acts' = acts
                   /\ cur_act' = cur_act
                   /\ cur_scene' = f.scene
                   /\ uid' = uid
    /\ first_heading_found' = TRUE
    /\ i' = i + 1
    /\ UNCHANGED <<inputVars, concVars, flat, pc, tokens, toc_indices, novelVars, result, exc, clf>>

\* the scene branch of the loop body, with the implicit ACT I
PlaySceneHeading ==
    /\ Surviving
    /\ tokens[i].level = "scene"
    /\ LET act0 == IF cur_act = None THEN NewAct(uid + 1, sACT_I) ELSE cur_act
           u == IF cur_act = None THEN uid + 1 ELSE uid
           f == flush(cur_scene, content_buffer)
       IN  /\ cur_act' = AppendChild(act0, f.scene)
           /\ cur_scene' = NewScene(u + 1, tokens[i].title)
           /\ content_buffer' = f.buffer
           /\ uid' = u + 1
    /\ first_heading_found' = TRUE
    /\ i' = i + 1
    /\ UNCHANGED <<inputVars, concVars, flat, pc, tokens, toc_indices, acts, novelVars, result, exc, clf>>

\* no content is passed over
FrontMatter_none == FALSE

\* content before the first heading, or with no act open: continue
FrontMatter == ~first_heading_found \/ cur_act = None

\* the content branch of the loop body
PlayContent ==
    /\ AtToken
    /\ IsContent(tokens[i])
    /\ IF FrontMatter
       THEN UNCHANGED <<cur_scene, content_buffer, uid>>
       ELSE /\ cur_scene' = IF cur_scene = None THEN NewScene(uid + 1, sScene_1)
                            ELSE cur_scene
            /\ uid' = IF cur_scene = None THEN uid + 1 ELSE uid
            /\ content_buffer' = Append(content_buffer, tokens[i].text)
    /\ i' = i + 1
    /\ UNCHANGED <<inputVars, concVars, flat, pc, tokens, toc_indices, acts, cur_act,
                   first_heading_found, novelVars, result, exc, clf>>

\* after the loop: flush, close scene and act, return acts or the fallback
PlayReturn ==
    /\ pc = "play_loop"
    /\ i > Len(tokens)
    /\ LET f == flush(cur_scene, content_buffer)
           act1 == AppendChild(cur_act, f.scene)
           acts1 == IF cur_act # None THEN Append(acts, act1) ELSE acts
       IN  /\ cur_scene' = f.scene
           /\ content_buffer' = f.buffer
           /\ cur_act' = act1
           /\ acts' = acts1
           /\ result' = IF acts1 # <<>> THEN acts1
                        ELSE fallback_single_unit(tokens, uid + 1)
           /\ uid' = IF acts1 # <<>> THEN uid ELSE uid + 2
    /\ pc' = "done"
    /\ UNCHANGED <<inputVars, concVars, flat, tokens, toc_indices, i, first_heading_found,
                   novelVars, exc, clf>>

\* _build_novel_hierarchy up to the loop: the synthetic "Beginning" chapter
BuildNovelStart ==
    /\ pc = "novel_start"
    /\ chapters' = <<>>
    /\ cur_chapter' = NewChapter(uid + 1, sBeginning)
    /\ uid' = uid + 2
    /\ i' = 1
    /\ pc' = "novel_loop"
    /\ UNCHANGED <<inputVars, concVars, flat, tokens, toc_indices, playVars, result, exc, clf>>

\* no test: every chapter is emitted
HasParagraphs_always(c) == TRUE

\* the test that asks for a second paragraph
HasParagraphs_two(c) == Len(c.children[1].paragraphs) >= 2

HasParagraphs(c) == c.children[1].paragraphs # <<>>

\* one iteration of the loop of _build_novel_hierarchy
NovelStep ==
    /\ pc = "novel_loop"
    /\ i <= Len(tokens)
    /\ LET t == tokens[i]
       IN  IF IsHeading(t) /\ t.level = "chapter"
           THEN /\ chapters' = IF HasParagraphs(cur_chapter)
                               THEN Append(chapters, cur_chapter) ELSE chapters
                /\ cur_chapter' = NewChapter(uid + 1, t.title)
                /\ uid' = uid + 2
           ELSE IF IsContent(t)
           THEN /\ cur_chapter' =
                       [cur_chapter EXCEPT !.children[1].paragraphs = Append(@, t.text)]
                /\ UNCHANGED <<chapters, uid>>
           ELSE UNCHANGED <<chapters, cur_chapter, uid>>
    /\ i' = i + 1
    /\ UNCHANGED <<inputVars, concVars, flat, pc, tokens, toc_indices, playVars, result, exc, clf>>

\* after the loop: close the last chapter, roll up section content, return
NovelReturn ==
    /\ pc = "novel_loop"
    /\ i > Len(tokens)
    /\ LET chapters1 == IF HasParagraphs(cur_chapter)
                        THEN Append(chapters, cur_chapter) ELSE chapters
           rolled == [k \in 1..Len(chapters1) |-> RollUp(chapters1[k])]
       IN  /\ chapters' = rolled
           /\ result' = rolled
    /\ pc' = "done"
    /\ UNCHANGED <<inputVars, concVars, flat, tokens, toc_indices, i, playVars, cur_chapter, uid, exc, clf>>

\* analyze: the hierarchy segment returned is flattened for the readers
Flatten ==
    /\ call = "segment"
    /\ pc = "done"
    /\ flat' = flatten_units(result, doc_type)
    /\ pc' = "flattened"
    /\ UNCHANGED <<inputVars, concVars, segVars, clf>>

Init == InitSegment \/ InitClassify

Next ==
    \/ Classify
    \/ Tokenise
    \/ BuildPlayStart
    \/ PlaySkipToc
    \/ PlaySkipRepeat
    \/ PlayRaise
    \/ PlayActHeading
    \/ PlaySceneHeading
    \/ PlayContent
    \/ PlayReturn
    \/ BuildNovelStart
    \/ NovelStep
    \/ NovelReturn
    \/ Flatten

Spec == Init /\ [][Next]_vars

----------------------------------------------------------------------------
(* Several calls on the shared classifier and segmenter instances          *)

\* every variable a call works on
AllVars ==
    [call |-> call, blocks |-> blocks, doc_type |-> doc_type, pc |-> pc,
     tokens |-> tokens, toc_indices |-> toc_indices, i |-> i, acts |-> acts,
     cur_act |-> cur_act, cur_scene |-> cur_scene,
     content_buffer |-> content_buffer,
     first_heading_found |-> first_heading_found, chapters |-> chapters,
     cur_chapter |-> cur_chapter, uid |-> uid, result |-> result, exc |-> exc,
     clf |-> clf, flat |-> flat]

AllNames == DOMAIN AllVars

\* content_buffer kept on the segmenter instance instead of in the call
LocalNames_instance_buffer == AllNames \ {"uid", "content_buffer"}

\* arguments and local variables: each call has its own; _uid() draws from the
\* process-wide generator of the uuid module
LocalNames == AllNames \ {"uid"}

\* the running call's own variables
Frame == [n \in LocalNames |-> AllVars[n]]

\* what variable n holds once the call with frame f runs
Restore(n, f, cur) == IF n \in LocalNames THEN f[n] ELSE cur

\* a call that has returned or raised
Terminal(f) ==
    \/ f.pc \in {"raised", "flattened"}
    \/ f.call = "classify" /\ f.pc = "done"

\* the scheduler suspends the running call and resumes call c
Switch ==
    \E c \in DOMAIN other :
        /\ ~Terminal(other[c])
        /\ LET f == other[c]
           IN  /\ call' = Restore("call", f, call)
               /\ blocks' = Restore("blocks", f, blocks)
               /\ doc_type' = Restore("doc_type", f, doc_type)
               /\ pc' = Restore("pc", f, pc)
               /\ tokens' = Restore("tokens", f, tokens)
               /\ toc_indices' = Restore("toc_indices", f, toc_indices)
               /\ i' = Restore("i", f, i)
               /\ acts' = Restore("acts", f, acts)
               /\ cur_act' = Restore("cur_act", f, cur_act)
               /\ cur_scene' = Restore("cur_scene", f, cur_scene)
               /\ content_buffer' = Restore("content_buffer", f, content_buffer)
               /\ first_heading_found' =
                      Restore("first_heading_found", f, first_heading_found)
               /\ chapters' = Restore("chapters", f, chapters)
               /\ cur_chapter' = Restore("cur_chapter", f, cur_chapter)
               /\ uid' = Restore("uid", f, uid)
               /\ result' = Restore("result", f, result)
               /\ exc' = Restore("exc", f, exc)
               /\ clf' = Restore("clf", f, clf)
               /\ flat' = Restore("flat", f, flat)
        /\ other' = [d \in (DOMAIN other \ {c}) \cup {caller} |->
                        IF d = caller THEN Frame ELSE other[d]]
        /\ caller' = c
        /\ UNCHANGED model

\* the calls that run side by side
ConcCalls ==
    { [call |-> "segment", doc_type |-> "play",
       blocks |-> <<TextBlock(sACT_I), TextBlock(sSCENE_1), TextBlock(sHamletLine),
                    TextBlock(sACT_I)>>],
      [call |-> "segment", doc_type |-> "play",
       blocks |-> <<TextBlock(sACT_I), TextBlock(sACT_I), TextBlock(sACT_I),
                    TextBlock(sACT_I)>>],
      [call |-> "segment", doc_type |-> "play",
       blocks |-> <<TextBlock(sACT_I), TextBlock(sHamletLine)>>],
      [call |-> "segment", doc_type |-> "novel",
       blocks |-> <<TextBlock(sCHAPTER_1), TextBlock(sParaA)>>],
      [call |-> "classify", doc_type |-> "-",
       blocks |-> <<TwoLineBlock(sChapter_1, sChapter_2), TextBlock(sCue)>>] }

\* the variables of a call that has not started
InitRecord(x) ==
    [call |-> x.call, blocks |-> x.blocks, doc_type |-> x.doc_type,
     pc |-> IF x.call = "segment" THEN "tokenise" ELSE "classify",
     tokens |-> <<>>, toc_indices |-> {}, i |-> 1, acts |-> <<>>,
     cur_act |-> None, cur_scene |-> None, content_buffer |-> <<>>,
     first_heading_found |-> FALSE, chapters |-> <<>>, cur_chapter |-> None,
     uid |-> 0, result |-> None, exc |-> "none", clf |-> None, flat |-> None]

InitFrame(x) == [n \in LocalNames |-> InitRecord(x)[n]]

\* three calls: 1 and 2 on any inputs, 3 on the input of 1
InitConc ==
    \E a \in ConcCalls, b \in ConcCalls :
        /\ call = a.call
        /\ blocks = a.blocks
        /\ doc_type = a.doc_type
        /\ pc = InitRecord(a).pc
        /\ InitLocals
        /\ model \in (IF "classify" \in {a.call, b.call} THEN MLOutcomes ELSE {NoModel})
        /\ caller = 1
        /\ other = [c \in {2, 3} |-> IF c = 2 THEN InitFrame(b) ELSE InitFrame(a)]

NextConc == Next \/ Switch

SpecConc == InitConc /\ [][NextConc]_vars

----------------------------------------------------------------------------
(* _analyse_play_content on its own                                        *)

sParen == <<"(","a","s","i","d","e",")">>
sLongStage == <<"[">> \o Rep("x", LongLine)

MaxLines == 4

\* the kinds of line a play scene holds: cue, stage directions, plain text,
\* and a bracketed line of more than LongLine characters
ContentLines == {sCue, sStage, sParen, sHamletLine, sLongStage}

InitAnalyse ==
    /\ call = "analyse"
    /\ pc = "analyse"
    /\ blocks = <<>>
    /\ doc_type = "play"
    /\ tokens = <<>>
    /\ toc_indices = {}
    /\ i = 1
    /\ acts = <<>>
    /\ cur_act = None
    /\ cur_scene = None
    /\ content_buffer \in SeqsUpTo(ContentLines, MaxLines)
    /\ first_heading_found = FALSE
    /\ chapters = <<>>
    /\ cur_chapter = None
    /\ uid = 0
    /\ result = None
    /\ exc = "none"
    /\ clf = None
    /\ flat = None
    /\ model = NoModel
    /\ caller = 1
    /\ other = <<>>

\* self._analyse_play_content(content_buffer)
AnalyseContent ==
    /\ pc = "analyse"
    /\ result' = analyse_play_content(content_buffer)
    /\ pc' = "done"
    /\ UNCHANGED <<inputVars, concVars, flat, clf, tokens, toc_indices, i, playVars,
                   novelVars, uid, exc>>

SpecAnalyse == InitAnalyse /\ [][AnalyseContent]_vars

----------------------------------------------------------------------------
(* Properties                                                              *)

IsAct(t) == IsHeading(t) /\ t.level = "act"
IsScene(t) == IsHeading(t) /\ t.level = "scene"
IsChapter(t) == IsHeading(t) /\ t.level = "chapter"

SegmentDone(dt) == call = "segment" /\ doc_type = dt /\ pc = "done"
ClassifyDone == call = "classify" /\ pc = "done"

\* C1: segment (play, novel, generic) and classify never raise: every call on
\* every block list ends in a returned value, also when a surviving Act heading
\* is directly followed by a content token.
C1_NeverRaises == pc # "raised" /\ exc = "none"

\* every Act heading is followed by a Scene heading, every Scene heading by content
WellFormedPlay(toks) ==
    /\ toks # <<>>
    /\ IsAct(toks[1])
    /\ \A j \in 1..Len(toks) :
          /\ IsAct(toks[j]) => j < Len(toks) /\ IsScene(toks[j + 1])
          /\ IsScene(toks[j]) => j < Len(toks) /\ IsContent(toks[j + 1])

\* C2: for a play stream in which every Act heading is followed by one or more
\* Scene headings and every scene by content, the play builder returns exactly
\* one top-level unit per Act heading, in input order and titled by it, each with
\* at least one child scene holding at least one block.
C2_OneUnitPerAct ==
    (SegmentDone("play") /\ WellFormedPlay(tokens)) =>
        LET hs == SelectSeq(tokens, IsAct)
        IN  /\ Len(result) = Len(hs)
            /\ \A k \in 1..Len(result) :
                  /\ result[k].title = hs[k].title
                  /\ Len(result[k].children) >= 1
                  /\ \A c \in 1..Len(result[k].children) :
                        Len(result[k].children[c].blocks) >= 1

C3Doc ==
    <<TextBlock(sChapter_1), TextBlock(sParaA), TextBlock(sParaB),
      TextBlock(sChapter_2), TextBlock(sParaA)>>

IsChapterLine(b) == b \in {TextBlock(sChapter_1), TextBlock(sChapter_2), TextBlock(sCHAPTER_1)}
IsParagraphLine(b) == b \in {TextBlock(sParaA), TextBlock(sParaB)}

\* C3: segment(blocks, "novel") on [Chapter 1][para A][para B][Chapter 2][para]
\* with mixed-case heading lines returns exactly the two chapters titled by the
\* headings, the first with one section holding [para A, para B]; in general each
\* chapter-heading line followed by a paragraph yields exactly one chapter.
C3_ChapterPerHeading ==
    (SegmentDone("novel") /\ blocks \in NovelDocs) =>
        /\ blocks = C3Doc =>
              /\ Len(result) = 2
              /\ result[1].title = sChapter_1
              /\ result[2].title = sChapter_2
              /\ Len(result[1].children) = 1
              /\ result[1].children[1].paragraphs = <<sParaA, sParaB>>
        /\ Cardinality({k \in 1..Len(result) : result[k].title # sBeginning})
              = Cardinality({k \in 1..(Len(blocks) - 1) :
                                IsChapterLine(blocks[k]) /\ IsParagraphLine(blocks[k + 1])})

\* one line "ACT I SCENE 1 <prose>" in a play
ActSceneProse(prose) ==
    /\ call = "segment"
    /\ doc_type = "play"
    /\ pc # "tokenise"
    /\ blocks = SmushedDoc(<<spACT_I, spSCENE_1, prose>>)

ActSceneProseTokens(prose) ==
    <<HeadingToken("act", <<"A","C","T"," ","I">>),
      HeadingToken("scene", <<"S","C","E","N","E"," ","1">>),
      ContentToken(strip(prose.text))>>

ProseSpans == {spHamletSpeaks, spHAMLET_SPEAKS, spMacbeth, spFarSpeaks}

NearEnd == 13 + 20

LowercaseNear(prose) ==
    LET line == strip(Concat(<<spACT_I.text, spSCENE_1.text, prose.text>>))
    IN  \E k \in 1..Min(Len(line), NearEnd) : line[k] \in LowerChars

C5_InferredAct ==
    (SegmentDone("play") /\ tokens # <<>> /\ IsScene(tokens[1]) /\ 1 \notin toc_indices) =>
        /\ Len(result) >= 1
        /\ result[1].title = sACT_I
        /\ "inferred" \in DOMAIN result[1]
        /\ result[1].inferred = TRUE

\* the strict play override, read off the returned signal counts
OverrideApplies(g) ==
    (g.act_heading >= 1 /\ g.scene_heading >= 1) \/ g.act_heading >= 3

\* C6: classify returns play with confidence 0.95 whenever (act_heading >= 1 and
\* scene_heading >= 1) or act_heading >= 3, whatever the novel signals, the score
\* comparison and the model's contribution are.
C6_StrictOverride ==
    (ClassifyDone /\ OverrideApplies(clf.signals)) =>
        clf.type = "play" /\ clf.confidence = 950

C6_Witness ==
    /\ ClassifyDone
    /\ OverrideApplies(clf.signals)
    /\ clf.novel_score > clf.play_score
    /\ clf.signals.chapter_heading >= 1
    /\ clf.type = "play"

\* C7: whenever the returned play_score + novel_score is below 2.0 the returned
\* type is generic with confidence 0.5, and the strict override never applies to
\* such a result.
C7_SparseIsGeneric ==
    (ClassifyDone /\ clf.play_score + clf.novel_score < 200) =>
        /\ clf.type = "generic"
        /\ clf.confidence = 500
        /\ ~OverrideApplies(clf.signals)

C7_Witness ==
    /\ ClassifyDone
    /\ clf.play_score + clf.novel_score > 100
    /\ clf.play_score + clf.novel_score < 200
    /\ clf.type = "generic"

\* C8: classify returns one of play, novel, generic and a confidence in [0, 1];
\* on the score-comparison path the confidence is at least 0.5 and at most 1.
C8_TypeAndConfidence ==
    ClassifyDone =>
        /\ clf.type \in {"play", "novel", "generic"}
        /\ clf.confidence >= 0 /\ clf.confidence <= 1000
        /\ (~OverrideApplies(clf.signals) /\ clf.play_score + clf.novel_score >= 200)
              => clf.confidence >= 500 /\ clf.confidence <= 1000

C8_Witness ==
    /\ ClassifyDone
    /\ ~OverrideApplies(clf.signals)
    /\ clf.type = "novel"
    /\ clf.play_score > 0
    /\ clf.confidence > 500 /\ clf.confidence < 1000

\* a block list without any text: no text block has a line with a non-blank character
NoText(bs) ==
    \A k \in 1..Len(bs) :
        bs[k].type = 0 =>
            \A l \in 1..Len(bs[k].lines) :
                \A sp \in 1..Len(bs[k].lines[l].spans) :
                    \A c \in 1..Len(bs[k].lines[l].spans[sp].text) :
                        bs[k].lines[l].spans[sp].text[c] = " "

\* C9: classify on an empty block list, on non-text blocks only, or on text
\* blocks whose lines are all empty or blank returns generic, confidence 0.5, and
\* a signals map holding every known signal key with value 0.
C9_EmptyIsGeneric ==
    (ClassifyDone /\ NoText(blocks)) =>
        /\ clf.type = "generic"
        /\ clf.confidence = 500
        /\ DOMAIN clf.signals = SignalKeys
        /\ \A key \in SignalKeys : clf.signals[key] = 0

C9_Witness ==
    /\ ClassifyDone
    /\ NoText(blocks)
    /\ \E k \in 1..Len(blocks) : blocks[k].type # 0
    /\ \E k \in 1..Len(blocks) : blocks[k] = TextBlock(<<" ", " ">>)
    /\ clf.type = "generic"

\* headings among the tokens a..b
HeadingsIn(toks, a, b) == {k \in a..Min(b, Len(toks)) : IsHeading(toks[k])}

\* heading j lies in a window of 8 tokens that starts at a heading, holds at
\* least 4 headings and has fewer than 200 content characters between its first
\* and its last heading
InDenseWindow(toks, j) ==
    /\ IsHeading(toks[j])
    /\ \E w \in Max(1, j - 7)..j :
          /\ IsHeading(toks[w])
          /\ Cardinality(HeadingsIn(toks, w, w + 7)) >= 4
          /\ SumLen(toks, w, SetMax(HeadingsIn(toks, w, w + 7))) < 200

SurvivorTitles(level) ==
    {tokens[j].title : j \in {k \in 1..Len(tokens) :
                                 /\ IsHeading(tokens[k])
                                 /\ tokens[k].level = level
                                 /\ ~InDenseWindow(tokens, k)}}

\* titles of returned units come from headings outside every dense window, or
\* are the builder's own
C10_Titles ==
    SegmentDone("play") =>
        \A k \in 1..Len(result) :
            /\ result[k].title \in {sThePlay, sACT_I} \cup SurvivorTitles("act")
            /\ \A c \in 1..Len(result[k].children) :
                  result[k].children[c].title
                      \in {sContent, sScene_1} \cup SurvivorTitles("scene")

\* C10: in the play builder a heading inside a window of 8 tokens with >= 4
\* headings and < 200 content characters between the window's first and last
\* heading is suppressed: its step opens, closes and buffers nothing, and its
\* title reaches no returned unit; a heading in no such window is not skipped by
\* this rule (it is a repeated act, raises, or is taken as a heading).
C10_TocSuppression ==
    /\ [][(pc = "play_loop" /\ i <= Len(tokens) /\ IsHeading(tokens[i])) =>
            IF InDenseWindow(tokens, i)
            THEN /\ UNCHANGED <<acts, cur_act, cur_scene, content_buffer,
                                first_heading_found, uid>>
                 /\ pc' = "play_loop"
            ELSE IsRepeatedAct \/ pc' = "raised" \/ first_heading_found']_vars
    /\ []C10_Titles

C10_Witness ==
    /\ SegmentDone("play")
    /\ \E j \in 1..Len(tokens) : InDenseWindow(tokens, j) /\ tokens[j].title = sACT_II
    /\ \E j \in 1..Len(tokens) : IsHeading(tokens[j]) /\ ~InDenseWindow(tokens, j)
    /\ Len(result) = 1
    /\ result[1].title = sACT_I
    /\ Len(result[1].children) = 1
    /\ Len(result[1].children[1].blocks) >= 1

----------------------------------------------------------------------------
(* Builders: suppression, empty input, fallbacks                           *)

NovelDone == call = "segment" /\ doc_type \in {"novel", "generic"} /\ pc = "done"

HasContent(toks) == \E k \in 1..Len(toks) : IsContent(toks[k])
HasHeading(toks) == \E k \in 1..Len(toks) : IsHeading(toks[k])

\* C11: on the novel path (doc_type novel or generic) a chapter heading inside a
\* window of >= 4 headings with < 200 content characters between them opens no
\* chapter: every returned chapter is titled "Beginning" or by a chapter heading
\* that lies in no such window.
C11_NovelTocSuppression ==
    NovelDone =>
        \A k \in 1..Len(result) :
            result[k].title \in {sBeginning} \cup SurvivorTitles("chapter")

\* C12: when the token stream holds no content token (the empty block list
\* included) segment returns the empty sequence, for play, novel and generic.
C12_EmptyGivesEmpty ==
    (call = "segment" /\ pc = "done" /\ ~HasContent(tokens)) => result = <<>>

\* C13: when the token stream holds a content token, every top-level unit that
\* segment returns has at least one child, also when the content precedes the
\* only Act heading.
C13_UnitsHaveChildren ==
    (call = "segment" /\ pc = "done" /\ HasContent(tokens)) =>
        \A k \in 1..Len(result) : Len(result[k].children) >= 1

\* C14: when the token stream holds a content token, the builder returns, and
\* what it returns is a non-empty sequence of top-level units.
C14_NonEmptyResult ==
    (call = "segment" /\ HasContent(tokens)) =>
        /\ pc # "raised"
        /\ pc = "done" => Len(result) >= 1

\* C15: when the play builder opened no act, the result is exactly one unit
\* titled "The Play" with exactly one scene titled "Content" whose blocks come
\* from all content tokens in order, and unit and scene carry inferred = TRUE.
C15_PlayFallback ==
    (SegmentDone("play") /\ acts = <<>>) =>
        /\ Len(result) = 1
        /\ result[1].title = sThePlay
        /\ Len(result[1].children) = 1
        /\ result[1].children[1].title = sContent
        /\ result[1].children[1].blocks = analyse_play_content(ContentTexts(tokens))
        /\ "inferred" \in DOMAIN result[1]
        /\ result[1].inferred = TRUE
        /\ "inferred" \in DOMAIN result[1].children[1]
        /\ result[1].children[1].inferred = TRUE

\* C16: the novel builder on a stream with no heading token and at least one
\* content token returns exactly one chapter, titled "Beginning", with exactly
\* one section whose paragraphs are the texts of all content tokens in order.
C16_NovelBeginning ==
    (NovelDone /\ ~HasHeading(tokens) /\ HasContent(tokens)) =>
        /\ Len(result) = 1
        /\ result[1].title = sBeginning
        /\ Len(result[1].children) = 1
        /\ result[1].children[1].paragraphs = ContentTexts(tokens)

C16_Witness ==
    /\ NovelDone
    /\ ~HasHeading(tokens)
    /\ Len(tokens) >= 3
    /\ tokens[1].text = sChapter_1
    /\ tokens[2].text # tokens[3].text
    /\ Len(result) = 1
    /\ Len(result[1].children[1].paragraphs) = Len(tokens)

\* C19: every chapter returned by novel segmentation carries a content field,
\* non-empty whenever the chapter holds a paragraph.
C19_ChapterContent ==
    NovelDone =>
        \A k \in 1..Len(result) :
            /\ "content" \in DOMAIN result[k]
            /\ HasParagraphs(result[k]) => result[k].content # <<>>

C20Stream ==
    <<HeadingToken("act", sACT_I), HeadingToken("scene", sSCENE_1),
      ContentToken(sLongLine), HeadingToken("act", sACT_II),
      HeadingToken("scene", sSCENE_1), ContentToken(sHamletLine)>>

\* C20: a surviving, non-repeated Act heading that arrives while an act is open
\* closes that act and opens one titled by the heading whenever the open act
\* has a child scene or content was buffered for it before the flush; the stream
\* ACT I, SCENE 1, <long content>, ACT II, SCENE 1, <content> gives two acts,
\* the second titled ACT II.
C20_ActSwitch ==
    /\ [][(/\ Surviving
           /\ tokens[i].level = "act"
           /\ cur_act # None
           /\ (cur_act.children # <<>> \/ content_buffer # <<>>))
          => /\ Len(acts') = Len(acts) + 1
             /\ cur_act'.title = tokens[i].title]_vars
    /\ []((SegmentDone("play") /\ tokens = C20Stream) =>
             Len(result) = 2 /\ result[2].title = sACT_II)

----------------------------------------------------------------------------
(* Flattening                                                              *)

Flattened(dt) == call = "segment" /\ doc_type = dt /\ pc = "flattened"

\* the <<act, scene>> pairs of a hierarchy, in act-then-scene order
RECURSIVE ScenePairs(_)
ScenePairs(units) ==
    IF units = <<>> THEN <<>>
    ELSE [k \in 1..Len(Head(units).children) |-> <<Head(units), Head(units).children[k]>>]
         \o ScenePairs(Tail(units))

\* a scene the builder made up: the implicit "Scene 1" or the fallback "Content",
\* titled by no Scene heading of the stream
Synthesized(scene) ==
    /\ scene.title \in {sScene_1, sContent}
    /\ \A k \in 1..Len(tokens) : IsScene(tokens[k]) => tokens[k].title # scene.title

\* C17: flattening a play hierarchy gives one record per scene in act-then-scene
\* order, titled "<act title> - <scene title>" for a scene from a detected Scene
\* heading and by the act title alone for a scene the builder synthesized.
C17_FlattenTitles ==
    Flattened("play") =>
        LET ps == ScenePairs(result)
        IN  /\ Len(flat) = Len(ps)
            /\ \A k \in 1..Len(ps) :
                  flat[k].title = IF Synthesized(ps[k][2]) THEN ps[k][1].title
                                  ELSE ps[k][1].title \o sDash \o ps[k][2].title

----------------------------------------------------------------------------
(* Calls running side by side                                              *)

Callers == DOMAIN other \cup {caller}

\* the variables of call c, running or suspended
FrameOf(c) == IF c = caller THEN Frame ELSE other[c]

\* a unit or child without its generated id
StripRec(r) == [k \in DOMAIN r \ {"id"} |-> r[k]]

\* a hierarchy without its generated ids
StripIds(units) ==
    [k \in 1..Len(units) |->
        LET u == StripRec(units[k])
        IN  [u EXCEPT !.children = [j \in 1..Len(u.children) |-> StripRec(u.children[j])]]]

\* what a finished call hands back: the exception, the classification, the
\* hierarchy without ids and its flat form
Outcome(f) ==
    [pc |-> f.pc, exc |-> f.exc, clf |-> f.clf, flat |-> f.flat,
     units |-> IF f.pc = "flattened" THEN StripIds(f.result) ELSE <<>>]

\* finished calls on the same input agree
SameOutcomes ==
    \A c \in Callers, d \in Callers :
        ( /\ Terminal(FrameOf(c))
          /\ Terminal(FrameOf(d))
          /\ FrameOf(c).call = FrameOf(d).call
          /\ FrameOf(c).blocks = FrameOf(d).blocks
          /\ FrameOf(c).doc_type = FrameOf(d).doc_type )
        => Outcome(FrameOf(c)) = Outcome(FrameOf(d))

\* a step changes the variables of the running call only, and never the model
OwnStateOnly ==
    /\ model' = model
    /\ \A c \in Callers :
          FrameOf(c)' # FrameOf(c) => (c = caller /\ caller' = caller)

\* no step changes the input of any call
InputKept ==
    \A c \in Callers :
        /\ FrameOf(c)'.blocks = FrameOf(c).blocks
        /\ FrameOf(c)'.doc_type = FrameOf(c).doc_type

\* C18: calls of classify and segment interleaved on shared instances do not
\* interfere: a call returns the same classification and the same hierarchy, up
\* to generated ids, as every other call on the same input whatever ran in
\* between; a step writes only the running call's own variables; and the input
\* blocks of every call stay as they were given.
C18_NoInterference ==
    /\ []SameOutcomes
    /\ [][OwnStateOnly]_vars
    /\ [][InputKept]_vars

\* calls 1 and 3 segmented the same play, another call on a different input
\* took ids in between, and the two hierarchies differ in ids only
C18_Witness ==
    /\ \A c \in {1, 2, 3} : c \in Callers /\ FrameOf(c).pc = "flattened"
    /\ FrameOf(1).blocks = FrameOf(3).blocks
    /\ FrameOf(2).blocks # FrameOf(1).blocks
    /\ FrameOf(1).doc_type = "play"
    /\ Len(FrameOf(1).result) = 1
    /\ Len(FrameOf(1).result[1].children) = 1
    /\ FrameOf(1).result # FrameOf(3).result
    /\ StripIds(FrameOf(1).result) = StripIds(FrameOf(3).result)
    /\ FrameOf(1).result[1].id < FrameOf(2).result[1].id
    /\ FrameOf(2).result[1].id < FrameOf(1).result[1].children[1].id
    /\ FrameOf(1).result[1].children[1].blocks # <<>>

----------------------------------------------------------------------------
(* Play builder: repeated act headings                                     *)

\* a occurs in b when letter case is ignored
TitleWithin(a, b) ==
    \E p \in 1..(Len(b) - Len(a) + 1) :
        \A k \in 1..Len(a) : ToUpper(a[k]) = ToUpper(b[p + k - 1])

\* the loop stands at an Act heading outside the TOC clusters with an act open
AtActWithOpenAct ==
    /\ call = "segment"
    /\ pc = "play_loop"
    /\ i <= Len(tokens)
    /\ IsAct(tokens[i])
    /\ i \notin toc_indices
    /\ cur_act # None

\* the step passed over the heading: nothing flushed, closed or opened
HeadingIgnored ==
    /\ pc' = "play_loop"
    /\ UNCHANGED <<acts, cur_act, cur_scene, content_buffer, first_heading_found, uid>>

\* the step took the heading into the act branch (which flushes first) or
\* raised on the way there
HeadingTaken == pc' = "raised" \/ (cur_scene # None => content_buffer' = <<>>)

\* the statement with the containment as the claim words it: ignored exactly
\* when the heading's title contains the open act's title
C21_Original ==
    [][AtActWithOpenAct =>
          IF TitleWithin(cur_act.title, tokens[i].title)
          THEN HeadingIgnored ELSE HeadingTaken]_vars

\* C21: in the play builder an Act heading is ignored as a repeated running
\* header exactly when its title is contained in the open act's title, letter
\* case ignored; an Act heading whose title is not contained in the open act's
\* title is never ignored by this rule.
C21_RepeatRule ==
    [][AtActWithOpenAct =>
          IF TitleWithin(tokens[i].title, cur_act.title)
          THEN HeadingIgnored ELSE HeadingTaken]_vars

\* the loop has just passed over "ACT I" while "ACT II" was open with content
\* buffered, and the buffer is still there
C21_Witness ==
    /\ call = "segment"
    /\ pc = "play_loop"
    /\ i > 1
    /\ i - 1 \notin toc_indices
    /\ IsAct(tokens[i - 1])
    /\ tokens[i - 1].title = sACT_I
    /\ cur_act # None
    /\ cur_act.title = sACT_II
    /\ content_buffer # <<>>

\* the loop stands at an Act heading with an act open
AtActHeading ==
    /\ call = "segment"
    /\ pc = "play_loop"
    /\ i <= Len(tokens)
    /\ IsAct(tokens[i])
    /\ cur_act # None

\* C22: in the play builder an Act heading whose title is a case-insensitive
\* substring of the open act's title is skipped without flushing, closing or
\* opening anything: while "ACT III" is open a heading "ACT II" or "ACT I"
\* changes neither the act list, the open act, the open scene nor the content
\* buffer, whereas while "ACT I" is open a heading "ACT II" is not skipped by
\* this rule.
C22_SubstringSkip ==
    /\ [][(AtActHeading /\ TitleWithin(tokens[i].title, cur_act.title)) =>
            /\ pc' = "play_loop"
            /\ UNCHANGED <<acts, cur_act, cur_scene, content_buffer>>]_vars
    /\ [][(AtActHeading /\ cur_act.title = sACT_III
                        /\ tokens[i].title \in {sACT_I, sACT_II}) =>
            UNCHANGED <<acts, cur_act, cur_scene, content_buffer>>]_vars
    /\ [][(AtActWithOpenAct /\ cur_act.title = sACT_I /\ tokens[i].title = sACT_II) =>
            HeadingTaken]_vars

\* the loop has just passed over "ACT II" while "ACT III" was open, and the
\* line buffered before the heading is still in the buffer
C22_Witness ==
    /\ call = "segment"
    /\ pc = "play_loop"
    /\ i > 1
    /\ i - 1 \notin toc_indices
    /\ IsAct(tokens[i - 1])
    /\ tokens[i - 1].title = sACT_II
    /\ cur_act # None
    /\ cur_act.title = sACT_III
    /\ cur_scene # None
    /\ cur_scene.blocks = <<>>
    /\ content_buffer = <<sHamletLine>>

----------------------------------------------------------------------------
(* Tokeniser: the noise filter                                             *)

\* the input is one text block of one line, and it has been tokenised
OneLineTokenised ==
    /\ call = "segment"
    /\ pc # "tokenise"
    /\ Len(blocks) = 1
    /\ blocks[1].type = 0
    /\ Len(blocks[1].lines) = 1

TheLine == LineText(blocks[1].lines[1])

\* the 20 characters before and after a match, with the match
WindowOf(s, m) == Slice(s, Max(1, m.start - 20), Min(Len(s), m.end - 1 + 20))

\* the heading tokens of a stream, in order
HeadingsOf(toks) == SelectSeq(toks, IsHeading)

\* the headings left when a match is discarded exactly if its window holds a
\* lowercase letter and its level is not scene
KeptByLevel(s, ms) ==
    LET Keep(m) == ~(HasLowercase(WindowOf(s, m)) /\ m.level # "scene")
        kept == SelectSeq(ms, Keep)
    IN  [k \in 1..Len(kept) |->
            HeadingToken(kept[k].level, Slice(s, kept[k].start, kept[k].end - 1))]

\* C23: the noise filter discards a heading match exactly when the window of 20
\* characters before and after it contains a lowercase letter and the match is
\* not a scene-level heading: a scene-level match is never discarded, and an
\* act- or chapter-level match with a lowercase letter in its window is always
\* discarded, whether or not the word "Scene" occurs nearby.
C23_NoiseFilter ==
    (OneLineTokenised /\ TheLine # <<>>) =>
        HeadingsOf(tokens) = KeptByLevel(TheLine, LineMatches(TheLine, doc_type))

----------------------------------------------------------------------------
(* Play builder: scene nodes                                               *)

\* where a scene node sits: its act, its id and its title
Place(act, scene) == [act |-> act.id, id |-> scene.id, title |-> scene.title]

\* the scene nodes of a hierarchy in act-then-scene order
RECURSIVE Places(_)
Places(units) ==
    IF units = <<>> THEN <<>>
    ELSE [k \in 1..Len(Head(units).children) |->
             Place(Head(units), Head(units).children[k])]
         \o Places(Tail(units))

\* the scene nodes the loop holds: in the closed acts, in the open act, and the
\* open scene
Placed ==
    Places(acts)
    \o (IF cur_act = None THEN <<>> ELSE Places(<<cur_act>>))
    \o (IF cur_act = None \/ cur_scene = None THEN <<>>
        ELSE <<Place(cur_act, cur_scene)>>)

InPlayLoop == call = "segment" /\ pc = "play_loop"

AtSurvivingScene ==
    /\ InPlayLoop
    /\ i <= Len(tokens)
    /\ IsScene(tokens[i])
    /\ i \notin toc_indices

\* a surviving Scene heading adds one node, with a fresh id and the heading's
\* title, under the act that is open (a new "ACT I" when none is)
SceneOpened ==
    /\ cur_act' # None
    /\ cur_scene' # None
    /\ cur_scene'.title = tokens[i].title
    /\ \A k \in 1..Len(Placed) : Placed[k].id # cur_scene'.id
    /\ IF cur_act = None THEN cur_act'.title = sACT_I /\ cur_act'.children = <<>>
       ELSE cur_act'.id = cur_act.id
    /\ Placed' = Append(Placed, Place(cur_act', cur_scene'))

\* any other step of the loop keeps every node in place; a content token may
\* add the implicit "Scene 1" at the end
ScenesKept ==
    \/ Placed' = Placed
    \/ /\ Len(Placed') = Len(Placed) + 1
       /\ SubSeq(Placed', 1, Len(Placed)) = Placed
       /\ Placed'[Len(Placed')].title = sScene_1
       /\ IsContent(tokens[i])

\* C24: in the play builder every surviving Scene heading produces exactly one
\* scene node, placed among the children of the act that is open when the
\* heading is processed (the synthesized ACT I if none is), in the order of the
\* headings; no node is lost or duplicated at a later Scene heading, at an Act
\* switch, at an ignored Act heading or at the end of the stream, also when the
\* scene received no content: the returned hierarchy holds exactly these nodes.
C24_SceneNodes ==
    /\ [][AtSurvivingScene => SceneOpened]_vars
    /\ [][(InPlayLoop /\ ~AtSurvivingScene /\ pc' = "play_loop") => ScenesKept]_vars
    /\ [][(InPlayLoop /\ pc' = "done" /\ Placed # <<>>) => Places(result') = Placed]_vars

\* a returned play of two acts: the first closed at an act switch with two
\* scenes, the second of them without content, and a second act whose only
\* scene has no content
C24_Witness ==
    /\ SegmentDone("play")
    /\ Len(result) = 2
    /\ Len(result[1].children) = 2
    /\ result[1].children[1].blocks # <<>>
    /\ result[1].children[2].blocks = <<>>
    /\ Len(result[2].children) = 1
    /\ result[2].children[1].blocks = <<>>
    /\ Cardinality({Places(result)[k].id : k \in 1..3}) = 3

----------------------------------------------------------------------------
(* Play builder: content before and after the first heading                *)

\* headings of the stream outside the TOC clusters; a heading passed over as
\* a repeat has an act open, so an earlier heading is among these
Survivors == {j \in 1..Len(tokens) : IsHeading(tokens[j]) /\ j \notin toc_indices}

\* block b shows the text: as its content, inside its content, or as its cue
Shows(b, text) ==
    \/ Contains(b.content, text)
    \/ b.type = "dialogue" /\ b.character = text

\* all blocks of a hierarchy, in act-then-scene order
RECURSIVE BlocksOf(_)
BlocksOf(units) ==
    IF units = <<>> THEN <<>>
    ELSE Concat([k \in 1..Len(Head(units).children) |-> Head(units).children[k].blocks])
         \o BlocksOf(Tail(units))

\* texts of the content tokens before the first surviving heading that occur
\* in no content token after it
FrontTexts ==
    LET f == SetMin(Survivors)
        later == {tokens[j].text : j \in {k \in (f + 1)..Len(tokens) : IsContent(tokens[k])}}
    IN  {t \in {tokens[j].text : j \in {k \in 1..(f - 1) : IsContent(tokens[k])}} :
            \A u \in later : ~Contains(u, t)}

\* C25: in the play builder, when at least one heading survives, the text of
\* every content token before the first surviving heading appears in no block
\* of any returned scene, and content after it is never discarded on these
\* grounds: a content token is buffered exactly when a surviving heading
\* precedes it.
C25_FrontMatter ==
    /\ [][(InPlayLoop /\ i <= Len(tokens) /\ IsContent(tokens[i]) /\ pc' = "play_loop") =>
            IF \E j \in Survivors : j < i
            THEN content_buffer' = Append(content_buffer, tokens[i].text)
            ELSE UNCHANGED <<content_buffer, cur_scene, cur_act, acts>>]_vars
    /\ [](( SegmentDone("play") /\ Survivors # {} ) =>
            \A t \in FrontTexts :
                \A k \in 1..Len(BlocksOf(result)) : ~Shows(BlocksOf(result)[k], t))

\* a returned play: one line before the first heading, another line after it;
\* the scene holds the second line only
C25_Witness ==
    /\ SegmentDone("play")
    /\ Len(tokens) >= 3
    /\ IsContent(tokens[1])
    /\ tokens[1].text = sHamletLine
    /\ Survivors # {}
    /\ sHamletLine \in FrontTexts
    /\ Len(BlocksOf(result)) = 1
    /\ BlocksOf(result)[1].content = sLongLine

----------------------------------------------------------------------------
(* Play builder: the content buffer                                        *)

\* texts joined by single spaces
RECURSIVE JoinSpace(_)
JoinSpace(ts) ==
    IF ts = <<>> THEN <<>>
    ELSE IF Len(ts) = 1 THEN ts[1]
    ELSE ts[1] \o <<" ">> \o JoinSpace(Tail(ts))

\* the lines a block was made of: the cue of a dialogue, then its content
BlockLines(b) ==
    IF b.type = "dialogue"
    THEN <<b.character>> \o (IF b.content # <<>> THEN <<b.content>> ELSE <<>>)
    ELSE <<b.content>>

\* what the blocks spell when read in order
Spell(bs) == JoinSpace(Concat([k \in 1..Len(bs) |-> BlockLines(bs[k])]))

\* the texts of the content tokens after the first surviving heading
TextsAfterFirst ==
    ContentTexts(SubSeq(tokens, SetMin(Survivors) + 1, Len(tokens)))

\* the step runs flush(): a Scene or Act heading that is neither in a TOC
\* cluster nor passed over as a repeat, or the end of the stream
FlushingStep ==
    /\ InPlayLoop
    /\ pc' # "raised"
    /\ \/ i > Len(tokens)
       \/ /\ IsHeading(tokens[i])
          /\ i \notin toc_indices
          /\ ~(AtActHeading /\ TitleWithin(tokens[i].title, cur_act.title))

\* C26: in the play builder no content after the first surviving heading is
\* lost or reordered: the content buffer is non-empty only while a scene is
\* open, it is empty after every flush, and at return the blocks of the
\* returned scenes, read in act-then-scene order, spell the texts of all
\* content tokens after the first surviving heading, each once and in stream
\* order.
C26_ContentKept ==
    /\ []((call = "segment" /\ content_buffer # <<>>) => cur_scene # None)
    /\ [][FlushingStep => content_buffer' = <<>>]_vars
    /\ []((SegmentDone("play") /\ Survivors # {}) =>
            Spell(BlocksOf(result)) = JoinSpace(TextsAfterFirst))

\* a returned play whose scene holds a narrative line, then a cue with the
\* line that follows it as its speech
C26_Witness ==
    /\ SegmentDone("play")
    /\ Survivors # {}
    /\ Len(TextsAfterFirst) = 3
    /\ Len(BlocksOf(result)) = 2
    /\ BlocksOf(result)[1].type = "narrative"
    /\ BlocksOf(result)[2].type = "dialogue"
    /\ BlocksOf(result)[2].character = sCue
    /\ BlocksOf(result)[2].content = sHamletLine

----------------------------------------------------------------------------
(* Tokeniser: the tokens cover the lines                                   *)

\* segment has its tokens and is about to build the hierarchy
Tokenised == call = "segment" /\ pc \in {"play_start", "novel_start"}

\* the stripped texts of the lines of the text blocks, in order
RECURSIVE LineTexts(_)
LineTexts(bs) ==
    IF bs = <<>> THEN <<>>
    ELSE (IF Head(bs).type # 0 THEN <<>>
          ELSE [k \in 1..Len(Head(bs).lines) |-> LineText(Head(bs).lines[k])])
         \o LineTexts(Tail(bs))

\* what a token carries: the title of a heading, the text of a content token
TokenText(t) == IF IsHeading(t) THEN t.title ELSE t.text

NotSpace(c) == c \notin SpaceChars

\* a text without its whitespace
Unspaced(s) == SelectSeq(s, NotSpace)

\* a token text is trimmed and not empty
Trimmed(s) == s # <<>> /\ NotSpace(s[1]) /\ NotSpace(s[Len(s)])

\* C27: the tokens cover every non-blank line exactly once and in positional
\* order, earlier lines first: the content texts and heading titles put
\* together give back the lines up to the whitespace trimmed at token
\* boundaries; every token text is a piece of a line, and a content text is
\* trimmed and not empty; the text of a match discarded by the noise filter
\* stays inside a content token (a line yields as many headings as matches
\* pass the filter, and never two content tokens in a row), and the text
\* between two surviving matches is a content token of its own.
C27_TokensCoverLines ==
    Tokenised =>
        /\ Unspaced(Concat([k \in 1..Len(tokens) |-> TokenText(tokens[k])]))
               = Unspaced(Concat(LineTexts(blocks)))
        /\ \A k \in 1..Len(tokens) :
              /\ TokenText(tokens[k]) # <<>>
              /\ IsContent(tokens[k]) => Trimmed(tokens[k].text)
              /\ \E n \in 1..Len(LineTexts(blocks)) :
                    Contains(LineTexts(blocks)[n], TokenText(tokens[k]))
        /\ (OneLineTokenised /\ TheLine # <<>>) =>
              LET ms == LineMatches(TheLine, doc_type)
                  pass == {k \in 1..Len(ms) : ~IsNoise(TheLine, ms[k])}
              IN  /\ Len(HeadingsOf(tokens)) = Cardinality(pass)
                  /\ \A k \in 1..(Len(tokens) - 1) :
                        IsHeading(tokens[k]) \/ IsHeading(tokens[k + 1])

\* one line with a surviving match, text between it and a second surviving
\* match, and a discarded match that stayed inside the trailing content token
C27_Witness ==
    /\ OneLineTokenised
    /\ doc_type = "play"
    /\ Len(tokens) = 4
    /\ IsHeading(tokens[1])
    /\ IsContent(tokens[2])
    /\ IsHeading(tokens[3])
    /\ IsContent(tokens[4])
    /\ \E k \in 1..Len(LineMatches(TheLine, "play")) :
          /\ IsNoise(TheLine, LineMatches(TheLine, "play")[k])
          /\ LineMatches(TheLine, "play")[k].start > Len(TheLine) - Len(tokens[4].text)

----------------------------------------------------------------------------
(* Play content blocks                                                     *)

Analysed == call = "analyse" /\ pc = "done"

\* the line is tested for a cue and for a bracket
Short(line) == Len(line) <= 1000

IsCueLine(line) == Short(line) /\ CUE_RE(line)

IsBracketLine(line) ==
    Short(line) /\ ~CUE_RE(line) /\ line # <<>> /\ line[1] \in {"[", "("}

\* the type of the last block once lines[1..k] are in
RECURSIVE TypeAfter(_, _)
TypeAfter(lines, k) ==
    IF k = 0 THEN "none"
    ELSE IF IsCueLine(lines[k]) THEN "dialogue"
    ELSE IF IsBracketLine(lines[k]) THEN "stage_direction"
    ELSE IF TypeAfter(lines, k - 1) = "dialogue" THEN "dialogue"
    ELSE "narrative"

\* the lines that open a block: cues, bracketed lines, and plain lines that
\* do not follow a dialogue block
Openers(lines) ==
    {k \in 1..Len(lines) :
        \/ IsCueLine(lines[k])
        \/ IsBracketLine(lines[k])
        \/ TypeAfter(lines, k - 1) # "dialogue"}

\* the line that opens the j-th block, and the last line of that block
OpenerOf(lines, j) ==
    CHOOSE k \in Openers(lines) : Cardinality({o \in Openers(lines) : o <= k}) = j

LastOf(lines, j) ==
    IF j = Cardinality(Openers(lines)) THEN Len(lines) ELSE OpenerOf(lines, j + 1) - 1

\* C28: play content lines become blocks one line at a time: a cue line opens
\* a dialogue block with that character and empty content; a line starting
\* with [ or ( becomes a stage_direction block; any other line is appended to
\* the last block when that is a dialogue and otherwise opens a narrative
\* block, so a plain line after a stage direction or a narrative block never
\* extends an earlier dialogue; a line of more than 1000 characters never
\* opens a dialogue or stage_direction block; every dialogue block has a
\* non-empty character.
C28_PlayBlocks ==
    Analysed =>
        LET lines == content_buffer
        IN  /\ Len(result) = Cardinality(Openers(lines))
            /\ \A j \in 1..Len(result) :
                  LET o == OpenerOf(lines, j)
                      b == result[j]
                  IN  /\ b.type = TypeAfter(lines, o)
                      /\ IF IsCueLine(lines[o])
                         THEN /\ b.type = "dialogue"
                              /\ b.character = lines[o]
                              /\ b.character # <<>>
                              /\ b.content = JoinSpace(SubSeq(lines, o + 1, LastOf(lines, j)))
                         ELSE /\ b.type = IF IsBracketLine(lines[o]) THEN "stage_direction"
                                          ELSE "narrative"
                              /\ b.content = lines[o]
                              /\ LastOf(lines, j) = o
                      /\ ~Short(lines[o]) => b.type = "narrative"

\* cue, speech, stage direction, plain line: the plain line after the stage
\* direction opened a narrative block of its own
C28_Witness ==
    /\ Analysed
    /\ content_buffer = <<sCue, sHamletLine, sStage, sHamletLine>>
    /\ Len(result) = 3
    /\ result[1] = [type |-> "dialogue", character |-> sCue, content |-> sHamletLine]
    /\ result[3] = [type |-> "narrative", content |-> sHamletLine]

----------------------------------------------------------------------------
(* Novel builder: chapters and paragraphs                                  *)

\* the paragraphs of the chapters, read in order
RECURSIVE ParagraphsOf(_)
ParagraphsOf(units) ==
    IF units = <<>> THEN <<>>
    ELSE Concat([k \in 1..Len(Head(units).children) |-> Head(units).children[k].paragraphs])
         \o ParagraphsOf(Tail(units))

\* the titles of the chapters that get content: "Beginning" when the stream
\* opens with content, and every chapter heading directly followed by content
RECURSIVE TitlesWithContent(_, _)
TitlesWithContent(toks, k) ==
    IF k > Len(toks) THEN <<>>
    ELSE (IF IsContent(toks[k]) /\ k = 1 THEN <<sBeginning>>
          ELSE IF IsContent(toks[k]) /\ IsHeading(toks[k - 1]) THEN <<toks[k - 1].title>>
          ELSE <<>>)
         \o TitlesWithContent(toks, k + 1)

\* C29: the novel builder emits a chapter only when its section has at least
\* one paragraph: every returned chapter has exactly one section, with at
\* least one paragraph and a content field equal to its paragraphs joined by a
\* blank line; a chapter heading directly followed by another chapter heading
\* or by the end of the stream yields no chapter; and the paragraphs of the
\* returned chapters, read in order, are exactly the texts of all content
\* tokens in stream order.
C29_NovelChapters ==
    NovelDone =>
        /\ \A k \in 1..Len(result) :
              /\ Len(result[k].children) = 1
              /\ result[k].children[1].paragraphs # <<>>
              /\ result[k].children[1].content
                     = JoinBlank(result[k].children[1].paragraphs)
        /\ [k \in 1..Len(result) |-> result[k].title] = TitlesWithContent(tokens, 1)
        /\ ParagraphsOf(result) = ContentTexts(tokens)

\* a returned novel: a heading directly followed by a heading, a chapter of
\* two paragraphs, and a heading at the end of the stream; one chapter comes
\* back, its content the two paragraphs joined by a blank line
C29_Witness ==
    /\ NovelDone
    /\ Len(tokens) = 5
    /\ IsHeading(tokens[1])
    /\ IsHeading(tokens[2])
    /\ IsContent(tokens[3])
    /\ IsContent(tokens[4])
    /\ IsHeading(tokens[5])
    /\ tokens[3].text # tokens[4].text
    /\ Len(result) = 1
    /\ result[1].title = tokens[2].title
    /\ result[1].children[1].paragraphs = <<tokens[3].text, tokens[4].text>>
    /\ result[1].children[1].content = tokens[3].text \o <<"\n", "\n">> \o tokens[4].text

----------------------------------------------------------------------------
(* Classifier: the score comparison                                        *)

\* c thousandths is num/den rounded to three decimals: no thousandth is nearer
NearestThousandth(c, num, den) ==
    /\ 2 * (1000 * num - c * den) <= den
    /\ 2 * (c * den - 1000 * num) <= den

\* C30: when the strict play override does not apply and play_score +
\* novel_score >= 2.0, classify returns play if and only if play_score >
\* novel_score and novel otherwise (equal scores give novel), never generic,
\* with confidence max(play_score, novel_score) / (play_score + novel_score)
\* rounded to 3 decimals.
C30_ScoreComparison ==
    ( /\ ClassifyDone
      /\ ~OverrideApplies(clf.signals)
      /\ clf.play_score + clf.novel_score >= 200 ) =>
        /\ clf.type = IF clf.play_score > clf.novel_score THEN "play" ELSE "novel"
        /\ NearestThousandth(clf.confidence, Max(clf.play_score, clf.novel_score),
                             clf.play_score + clf.novel_score)

\* equal scores of at least 1.0 each without the override: novel, at 0.5
C30_Witness ==
    /\ ClassifyDone
    /\ ~OverrideApplies(clf.signals)
    /\ clf.play_score = clf.novel_score
    /\ clf.play_score >= 100
    /\ clf.type = "novel"
    /\ clf.confidence = 500

====
